---- MODULE Spec2Model ----
(***************************************************************************)
(* smemo: explicit session memoization.  A model of src/smemo/__init__.py  *)
(* (Session, its views, the gcached wrappers) driven by the bindings of    *)
(* src/tests/test_smemo.py.                                                *)
(*                                                                         *)
(* Python values are tagged tuples, so that any two of them compare:       *)
(*   <<"None">>, <<"int", i>>, <<"str", s>>, <<"func", b>>, <<"obj", i>>   *)
(* where <<"obj", i>> is a reference to the mutable list object i of the   *)
(* heap (a one-element list such as the tests' counter = [0]).             *)
(* A cache entry is the pair <<value, exception>> of ResType; the absent   *)
(* entry (get_cache returning None) is the empty tuple.                    *)
(***************************************************************************)
EXTENDS Integers, Sequences, FiniteSets, TLC

VARIABLES
    _cache,         \* Session._cache: session -> (binding -> (key -> entry))
    _simple_cache,  \* Session._simple_cache: session -> (binding -> value)
    _disabled,      \* Session._disabled: session -> BOOLEAN
    heap,           \* the list objects: object id -> <<content>> ([content]), or Free
    counter,        \* the tests' counter[0], incremented by func2/func3 bodies
    scopes,         \* the active nocache() generators, innermost last
    last            \* what the caller observed of the last operation

vars == <<_cache, _simple_cache, _disabled, heap, counter, scopes, last>>

-----------------------------------------------------------------------------
\* Bounds of the model

MaxN == 5          \* largest argument the Fibonacci bindings are called with
MaxViewN == 2      \* largest Fibonacci argument called through the views
MaxObj == 2        \* number of live list objects the heap can hold
MaxVal == 1        \* largest content of a list object (mutations stop there)
MaxCount == 8      \* cap of the tests' counter
MaxDepth == 2      \* deepest nesting of nocache() blocks

-----------------------------------------------------------------------------
\* Values

NoneV == <<"None">>
IntV(i) == <<"int", i>>
StrV(x) == <<"str", x>>
FuncV(b) == <<"func", b>>
ObjV(i) == <<"obj", i>>
EmptyTupleV == <<"tuple">>
EmptyDictV == <<"dict">>
\* a list and a dict passed as an argument, by their content in insertion
\* order (items are <<key, value>> pairs), and a lambda
ListV(elems) == <<"list", elems>>
DictV(items) == <<"dict", items>>
LambdaV == <<"lambda">>
PICKLED == <<"PICKLED">>

MISSING == <<"MISSING">>
NoEntry == <<>>
NoExc == "None"
Free == <<>>
ObjIds == 1..MaxObj

IsObj(v) == v[1] = "obj"
IsInt(v) == v[1] = "int"

\* bool(v) is False: None, 0 and the empty tuple
Falsy(v) == v \in {NoneV, IntV(0), EmptyTupleV}

-----------------------------------------------------------------------------
\* Sessions: P is a root session, C an unrestricted child of P, R0 a child of
\* P with restrict=[], R1 a child of P with restrict=[func5], and Q a session
\* constructed with restrict=[func5] but without a parent.

Sessions == {"P", "C", "R0", "R1", "Q"}
NoRestrict == {"None"}

\* the sessions of the tree rooted at P
TreeSessions == {"P", "C", "R0", "R1"}

Parent(s) == IF s \in {"P", "Q"} THEN "None" ELSE "P"

Restrict(s) ==
    CASE s = "R0" -> {}
      [] s \in {"R1", "Q"} -> {"func5"}
      [] OTHER -> NoRestrict

\* A session object as a binding receives it: a Session or one of its views.
Plain(s) == [kind |-> "Session", s |-> s, ret |-> NoneV, exc |-> NoExc]
Inv(s) == [kind |-> "InvalidatorSession", s |-> s, ret |-> NoneV, exc |-> NoExc]
CallOnly(s) == [kind |-> "CallOnlySession", s |-> s, ret |-> NoneV, exc |-> NoExc]
SetCache(s, ret, exc) == [kind |-> "SetCacheSession", s |-> s, ret |-> ret, exc |-> exc]
NoSession == [kind |-> "None", s |-> "None", ret |-> NoneV, exc |-> NoExc]

-----------------------------------------------------------------------------
\* Bindings: the decorated functions of the tests and the module's getter.
\* func6 is func3 declared without its parameter n: a cached binding that
\* takes the session only and whose body raises.

Bindings == {"func1", "func2", "func3", "func3a", "func5", "func5b",
             "getter", "do_count", "do_count2", "do_count_c", "func6",
             "func4"}

\* _no_arg: the function takes the session only
_no_arg(b) == b \in {"func5", "func5b", "func6"}

\* the ref option the binding was wrapped with (cached: False, rcached: True)
Ref(b) == b \in {"func3a", "func4", "func5", "getter", "do_count", "do_count2"}

\* mutant of PERSISTENT_FUNCS: getter is not registered as persistent
PERSISTENT_FUNCS_without_getter == {"do_count", "do_count2", "func5b"}

PERSISTENT_FUNCS == {"getter", "do_count", "do_count2", "func5b"}

PKEY_FUNCS(pkey) == IF pkey = "test_pkey" THEN {"do_count2", "func5b"} ELSE {}

-----------------------------------------------------------------------------
\* Key derivation.  kwargs is the sequence of <<name, value>> pairs in the
\* order the call passed them; sorted() orders them by name.

KwOrder == <<"k", "n", "val">>

SortKw(kwargs) ==
    LET F[i \in 0..Len(KwOrder)] ==
            IF i = 0 THEN <<>>
            ELSE F[i - 1] \o SelectSeq(kwargs, LAMBDA p : p[1] = KwOrder[i])
    IN F[Len(KwOrder)]

\* hash(v) raises no TypeError: lists and dicts are unhashable
hashable(v) == v[1] \notin {"list", "dict"}

\* hash(args) of the tuple of positional arguments
hash_args(args) == \A i \in 1..Len(args) : hashable(args[i])

\* hash(kwlist) of the tuple of (name, value) pairs
hash_kwlist(kwlist) == \A i \in 1..Len(kwlist) : hashable(kwlist[i][2])

\* pickle can serialize v: a lambda cannot be pickled, nor can a list or a
\* dict that contains one
picklable(v) ==
    CASE v[1] = "lambda" -> FALSE
      [] v[1] = "list" -> \A i \in 1..Len(v[2]) : v[2][i] # LambdaV
      [] v[1] = "dict" /\ Len(v) = 2 ->
            \A i \in 1..Len(v[2]) : v[2][i][1] # LambdaV /\ v[2][i][2] # LambdaV
      [] OTHER -> TRUE

\* pickle.dumps(x): the bytes are written from the content of x as it is
\* traversed, a dict in its insertion order
pickle_dumps(x) == <<"bytes", x>>

\* the exception _key raises: pickle.dumps fails on what could not be hashed
_key_exc(args, kwargs) ==
    LET kwlist == SortKw(kwargs)
    IN IF \/ ~hash_args(args) /\ \E i \in 1..Len(args) : ~picklable(args[i])
          \/ ~hash_kwlist(kwlist) /\ \E i \in 1..Len(kwlist) : ~picklable(kwlist[i][2])
       THEN "PicklingError"
       ELSE NoExc

_key(args, kwargs) ==
    LET kwlist == SortKw(kwargs)
    IN <<IF hash_args(args) THEN args ELSE <<PICKLED, pickle_dumps(args)>>,
         IF hash_kwlist(kwlist) THEN kwlist ELSE <<PICKLED, pickle_dumps(kwlist)>>>>

\* what a lookup hands back when _key raised exc in it
KeyRaise(exc) == <<"raise", exc, "">>
IsRaise(entry) == Len(entry) = 3

-----------------------------------------------------------------------------
\* The machine state the operations below transform. ran lists the bodies
\* executed so far in the current operation, oom is set when the heap bound
\* is hit, raised is the exception a cache or cache_exc in progress has
\* raised, optimize tells whether the interpreter strips assert statements
\* (python -O).

State ==
    [cache |-> _cache, simple |-> _simple_cache, disabled |-> _disabled,
     heap |-> heap, counter |-> counter, ran |-> <<>>, oom |-> FALSE,
     raised |-> NoExc, optimize |-> FALSE]

Res(st, ret, exc) == [st |-> st, ret |-> ret, exc |-> exc]

\* the result of a cache or cache_exc: None, or the exception it raised
Raised(st) == Res([st EXCEPT !.raised = NoExc], NoneV, st.raised)

dict_get(d, k, default) == IF k \in DOMAIN d THEN d[k] ELSE default

dict_pop(d, k) == [x \in (DOMAIN d) \ {k} |-> d[x]]

\* "assert self._parent" followed by "self._parent.cache(...)" on a session
\* without a parent: AssertionError, or AttributeError when asserts are
\* stripped; nothing has been stored at that point.
no_parent(st) ==
    [st EXCEPT !.raised = IF st.optimize THEN "AttributeError" ELSE "AssertionError"]

\* mutant of _parent_only: the membership test inverted
_parent_only_inverted(s, b) == Restrict(s) # NoRestrict /\ b \in Restrict(s)

_parent_only(s, b) == Restrict(s) # NoRestrict /\ b \notin Restrict(s)

\* mutant of _cache_store: the disabled flag is not consulted
_cache_store_disabled_ignored(st, s, b, args, kwargs, entry) ==
    IF _no_arg(b)
    THEN [st EXCEPT !.simple[s] = (b :> entry[1]) @@ @]
    ELSE LET d == dict_get(st.cache[s], b, <<>>)
         IN IF _key_exc(args, kwargs) # NoExc
            THEN [st EXCEPT !.cache[s] = (b :> d) @@ @,
                            !.raised = _key_exc(args, kwargs)]
            ELSE [st EXCEPT !.cache[s] = (b :> ((_key(args, kwargs) :> entry) @@ d)) @@ @]

\* mutant of _cache_store: the binding's dict is replaced on every store
_cache_store_fresh_dict(st, s, b, args, kwargs, entry) ==
    IF st.disabled[s] THEN st
    ELSE IF _no_arg(b)
    THEN [st EXCEPT !.simple[s] = (b :> entry[1]) @@ @]
    ELSE IF _key_exc(args, kwargs) # NoExc
    THEN [st EXCEPT !.cache[s] = (b :> <<>>) @@ @,
                    !.raised = _key_exc(args, kwargs)]
    ELSE [st EXCEPT !.cache[s] = (b :> (_key(args, kwargs) :> entry)) @@ @]

_cache_store(st, s, b, args, kwargs, entry) ==
    IF st.disabled[s] THEN st
    ELSE IF _no_arg(b)
    THEN [st EXCEPT !.simple[s] = (b :> entry[1]) @@ @]
    ELSE LET d == dict_get(st.cache[s], b, <<>>)
         IN IF _key_exc(args, kwargs) # NoExc
            THEN [st EXCEPT !.cache[s] = (b :> d) @@ @,
                            !.raised = _key_exc(args, kwargs)]
            ELSE [st EXCEPT !.cache[s] = (b :> ((_key(args, kwargs) :> entry) @@ d)) @@ @]

-----------------------------------------------------------------------------
\* Session.cache / Session.cache_exc / SetCacheSession.cache / BaseSession

RECURSIVE cache(_, _, _, _, _, _)
RECURSIVE cache_exc(_, _, _, _, _, _)

\* mutant of cache: without a parent a restricted-away binding is stored locally
cache_stores_without_parent(st, session, b, val, args, kwargs) ==
    CASE session.kind = "Session" ->
            IF _parent_only(session.s, b) /\ Parent(session.s) # "None"
            THEN cache(st, Plain(Parent(session.s)), b, val, args, kwargs)
            ELSE _cache_store(st, session.s, b, args, kwargs, <<val, NoExc>>)
      [] session.kind = "SetCacheSession" ->
            IF session.exc # NoExc
            THEN cache_exc(st, Plain(session.s), b, session.exc, args, kwargs)
            ELSE cache(st, Plain(session.s), b, session.ret, args, kwargs)
      [] OTHER -> st

\* mutant of cache: a child also writes its parent's store
cache_write_through(st, session, b, val, args, kwargs) ==
    CASE session.kind = "Session" ->
            LET st1 == IF _parent_only(session.s, b) THEN st
                       ELSE _cache_store(st, session.s, b, args, kwargs, <<val, NoExc>>)
            IN IF Parent(session.s) # "None"
               THEN cache(st1, Plain(Parent(session.s)), b, val, args, kwargs)
               ELSE st1
      [] session.kind = "SetCacheSession" ->
            IF session.exc # NoExc
            THEN cache_exc(st, Plain(session.s), b, session.exc, args, kwargs)
            ELSE cache(st, Plain(session.s), b, session.ret, args, kwargs)
      [] OTHER -> st

\* mutant of cache: the callonly view stores into its session
cache_callonly_stores(st, session, b, val, args, kwargs) ==
    CASE session.kind = "Session" ->
            IF _parent_only(session.s, b)
            THEN IF Parent(session.s) = "None" THEN no_parent(st)
                 ELSE cache(st, Plain(Parent(session.s)), b, val, args, kwargs)
            ELSE _cache_store(st, session.s, b, args, kwargs, <<val, NoExc>>)
      [] session.kind = "SetCacheSession" ->
            IF session.exc # NoExc
            THEN cache_exc(st, Plain(session.s), b, session.exc, args, kwargs)
            ELSE cache(st, Plain(session.s), b, session.ret, args, kwargs)
      [] session.kind = "CallOnlySession" ->
            cache(st, Plain(session.s), b, val, args, kwargs)
      [] OTHER -> st

\* mutant of cache: the setcache view stores the value it is given
cache_setcache_computed(st, session, b, val, args, kwargs) ==
    CASE session.kind = "Session" ->
            IF _parent_only(session.s, b)
            THEN IF Parent(session.s) = "None" THEN no_parent(st)
                 ELSE cache(st, Plain(Parent(session.s)), b, val, args, kwargs)
            ELSE _cache_store(st, session.s, b, args, kwargs, <<val, NoExc>>)
      [] session.kind = "SetCacheSession" ->
            cache(st, Plain(session.s), b, val, args, kwargs)
      [] OTHER -> st

cache(st, session, b, val, args, kwargs) ==
    CASE session.kind = "Session" ->
            IF _parent_only(session.s, b)
            THEN IF Parent(session.s) = "None" THEN no_parent(st)
                 ELSE cache(st, Plain(Parent(session.s)), b, val, args, kwargs)
            ELSE _cache_store(st, session.s, b, args, kwargs, <<val, NoExc>>)
      [] session.kind = "SetCacheSession" ->
            IF session.exc # NoExc
            THEN cache_exc(st, Plain(session.s), b, session.exc, args, kwargs)
            ELSE cache(st, Plain(session.s), b, session.ret, args, kwargs)
      [] OTHER -> st

\* mutant of cache_exc: the entry stored is (None, None)
cache_exc_dropped(st, session, b, exc, args, kwargs) ==
    CASE session.kind = "Session" ->
            IF _parent_only(session.s, b)
            THEN IF Parent(session.s) = "None" THEN no_parent(st)
                 ELSE cache_exc(st, Plain(Parent(session.s)), b, exc, args, kwargs)
            ELSE _cache_store(st, session.s, b, args, kwargs, <<NoneV, NoExc>>)
      [] OTHER -> st

cache_exc(st, session, b, exc, args, kwargs) ==
    CASE session.kind = "Session" ->
            IF _parent_only(session.s, b)
            THEN IF Parent(session.s) = "None" THEN no_parent(st)
                 ELSE cache_exc(st, Plain(Parent(session.s)), b, exc, args, kwargs)
            ELSE _cache_store(st, session.s, b, args, kwargs, <<NoneV, exc>>)
      [] OTHER -> st

-----------------------------------------------------------------------------
\* Session.get_cache / Session.simple_get_cache / BaseSession

RECURSIVE get_cache(_, _, _, _, _)
RECURSIVE simple_get_cache(_, _, _)

\* mutant of get_cache: the callonly view looks the call up in its session
get_cache_callonly_reads(st, session, b, args, kwargs) ==
    IF session.kind \notin {"Session", "CallOnlySession"} THEN NoEntry
    ELSE LET s == session.s
             ret == IF ~_parent_only(s, b) /\ b \in DOMAIN st.cache[s]
                    THEN IF _key_exc(args, kwargs) # NoExc
                         THEN KeyRaise(_key_exc(args, kwargs))
                         ELSE dict_get(st.cache[s][b], _key(args, kwargs), NoEntry)
                    ELSE NoEntry
         IN IF ret # NoEntry \/ Parent(s) = "None"
            THEN ret
            ELSE get_cache(st, Plain(Parent(s)), b, args, kwargs)

get_cache(st, session, b, args, kwargs) ==
    IF session.kind # "Session" THEN NoEntry
    ELSE LET s == session.s
             ret == IF ~_parent_only(s, b) /\ b \in DOMAIN st.cache[s]
                    THEN IF _key_exc(args, kwargs) # NoExc
                         THEN KeyRaise(_key_exc(args, kwargs))
                         ELSE dict_get(st.cache[s][b], _key(args, kwargs), NoEntry)
                    ELSE NoEntry
         IN IF ret # NoEntry \/ Parent(s) = "None"
            THEN ret
            ELSE get_cache(st, Plain(Parent(s)), b, args, kwargs)

\* mutant of simple_get_cache: a slot holding a false value counts as empty
simple_get_cache_falsy_misses(st, session, b) ==
    IF session.kind # "Session" THEN MISSING
    ELSE LET s == session.s
             ret == IF ~_parent_only(s, b) /\ b \in DOMAIN st.simple[s]
                    THEN st.simple[s][b]
                    ELSE MISSING
         IN IF Parent(s) = "None"
            THEN dict_get(st.simple[s], b, MISSING)
            ELSE IF ret # MISSING /\ ~Falsy(ret)
            THEN ret
            ELSE simple_get_cache(st, Plain(Parent(s)), b)

simple_get_cache(st, session, b) ==
    IF session.kind # "Session" THEN MISSING
    ELSE LET s == session.s
             ret == IF ~_parent_only(s, b) /\ b \in DOMAIN st.simple[s]
                    THEN st.simple[s][b]
                    ELSE MISSING
         IN IF Parent(s) = "None"
            THEN dict_get(st.simple[s], b, MISSING)
            ELSE IF ret # MISSING
            THEN ret
            ELSE simple_get_cache(st, Plain(Parent(s)), b)

-----------------------------------------------------------------------------
\* Session.invalidate

\* mutant of invalidate: the binding's entries for all argument keys go
invalidate_whole_binding(st, s, b, args, kwargs) ==
    IF _no_arg(b)
    THEN IF b \in DOMAIN st.simple[s]
         THEN [st EXCEPT !.simple[s] = dict_pop(@, b)]
         ELSE st
    ELSE IF b \in DOMAIN st.cache[s]
         THEN [st EXCEPT !.cache[s][b] = <<>>]
         ELSE st

\* mutant of invalidate: a restricted-away binding is invalidated in the parent
invalidate_forwarded(st, s, b, args, kwargs) ==
    LET t == IF _parent_only(s, b) THEN Parent(s) ELSE s
    IN IF _no_arg(b)
       THEN IF b \in DOMAIN st.simple[t]
            THEN [st EXCEPT !.simple[t] = dict_pop(@, b)]
            ELSE st
       ELSE IF b \in DOMAIN st.cache[t]
            THEN IF _key_exc(args, kwargs) # NoExc
                 THEN [st EXCEPT !.raised = _key_exc(args, kwargs)]
                 ELSE [st EXCEPT !.cache[t][b] = dict_pop(@, _key(args, kwargs))]
            ELSE st

invalidate(st, s, b, args, kwargs) ==
    IF _no_arg(b)
    THEN IF b \in DOMAIN st.simple[s]
         THEN [st EXCEPT !.simple[s] = dict_pop(@, b)]
         ELSE st
    ELSE IF b \in DOMAIN st.cache[s]
         THEN IF _key_exc(args, kwargs) # NoExc
              THEN [st EXCEPT !.raised = _key_exc(args, kwargs)]
              ELSE [st EXCEPT !.cache[s][b] = dict_pop(@, _key(args, kwargs))]
         ELSE st

-----------------------------------------------------------------------------
\* Session.invalidate_all: func is "None" when the argument is left out

\* the entries of d whose binding is in keep
dict_restrict(d, keep) == [x \in (DOMAIN d) \cap keep |-> d[x]]

\* mutant of invalidate_all: without a binding, persistent bindings go too
invalidate_all_drops_persistent(st, s, func) ==
    IF func # "None"
    THEN [st EXCEPT !.cache[s] = dict_pop(@, func), !.simple[s] = dict_pop(@, func)]
    ELSE [st EXCEPT !.cache[s] = <<>>, !.simple[s] = <<>>]

\* mutant of invalidate_all: a persistent binding is kept when named
invalidate_all_keeps_named(st, s, func) ==
    IF func # "None"
    THEN IF func \in PERSISTENT_FUNCS THEN st
         ELSE [st EXCEPT !.cache[s] = dict_pop(@, func), !.simple[s] = dict_pop(@, func)]
    ELSE [st EXCEPT !.cache[s] = dict_restrict(@, PERSISTENT_FUNCS),
                    !.simple[s] = dict_restrict(@, PERSISTENT_FUNCS)]

invalidate_all(st, s, func) ==
    IF func # "None"
    THEN [st EXCEPT !.cache[s] = dict_pop(@, func), !.simple[s] = dict_pop(@, func)]
    ELSE [st EXCEPT !.cache[s] = dict_restrict(@, PERSISTENT_FUNCS),
                    !.simple[s] = dict_restrict(@, PERSISTENT_FUNCS)]

-----------------------------------------------------------------------------
\* Session.invalidate_by_pkey

\* mutant of invalidate_by_pkey: every persistent binding is dropped
invalidate_by_pkey_any_tag(st, s, pkey) ==
    [st EXCEPT !.cache[s] = dict_restrict(@, Bindings \ PERSISTENT_FUNCS),
               !.simple[s] = dict_restrict(@, Bindings \ PERSISTENT_FUNCS)]

invalidate_by_pkey(st, s, pkey) ==
    [st EXCEPT !.cache[s] = dict_restrict(@, Bindings \ PKEY_FUNCS(pkey)),
               !.simple[s] = dict_restrict(@, Bindings \ PKEY_FUNCS(pkey))]

-----------------------------------------------------------------------------
\* pre_call / simple_pre_call of Session and of its views: the state after
\* the hook and the session the body is to be called with.

\* mutant of pre_call: the inv view hands the body its session
pre_call_inv_calls(st, session, b, args, kwargs) ==
    CASE session.kind = "Session" -> [st |-> st, session |-> session]
      [] session.kind = "InvalidatorSession" ->
            [st |-> invalidate(st, session.s, b, args, kwargs), session |-> Plain(session.s)]
      [] session.kind = "CallOnlySession" -> [st |-> st, session |-> Plain(session.s)]
      [] OTHER -> [st |-> st, session |-> NoSession]

pre_call(st, session, b, args, kwargs) ==
    CASE session.kind = "Session" -> [st |-> st, session |-> session]
      [] session.kind = "InvalidatorSession" ->
            [st |-> invalidate(st, session.s, b, args, kwargs), session |-> NoSession]
      [] session.kind = "CallOnlySession" -> [st |-> st, session |-> Plain(session.s)]
      [] OTHER -> [st |-> st, session |-> NoSession]

simple_pre_call(st, session, b) ==
    CASE session.kind = "Session" -> [st |-> st, session |-> session]
      [] session.kind = "InvalidatorSession" ->
            [st |-> invalidate(st, session.s, b, <<>>, <<>>), session |-> NoSession]
      [] session.kind = "CallOnlySession" -> [st |-> st, session |-> Plain(session.s)]
      [] OTHER -> [st |-> st, session |-> NoSession]

-----------------------------------------------------------------------------
\* copy.deepcopy: a list object is copied into the lowest free heap cell, any
\* other value (an int, None) is returned as it is.

deepcopy(st, v) ==
    IF ~IsObj(v) THEN Res(st, v, NoExc)
    ELSE LET free == {i \in ObjIds : st.heap[i] = Free}
         IN IF free = {} THEN Res([st EXCEPT !.oom = TRUE], v, NoExc)
            ELSE LET i == CHOOSE x \in free : \A y \in free : x <= y
                 IN Res([st EXCEPT !.heap[i] = st.heap[v[2]]], ObjV(i), NoExc)

-----------------------------------------------------------------------------
\* The wrapped functions (_gc_func, _gc0_func) and the bodies they wrap.

RECURSIVE call(_, _, _, _, _)

\* func1 / func2: the recursive Fibonacci bodies; func2 also increments the
\* tests' counter in its non-base case.
fib(st, session, b, args, kwargs) ==
    LET n == args[1][2]
    IN IF n <= 1 THEN Res(st, IntV(1), NoExc)
       ELSE LET st1 == IF b = "func2" THEN [st EXCEPT !.counter = @ + 1] ELSE st
                r1 == call(st1, session, b, <<IntV(n - 1)>>, <<>>)
            IN IF r1.exc # NoExc THEN r1
               ELSE LET r2 == call(r1.st, session, b, <<IntV(n - 2)>>, <<>>)
                    IN IF r2.exc # NoExc THEN r2
                       ELSE IF IsInt(r1.ret) /\ IsInt(r2.ret)
                       THEN Res(r2.st, IntV(r1.ret[2] + r2.ret[2]), NoExc)
                       ELSE Res(r2.st, NoneV, "TypeError")

\* the value the call passed for the parameter name
kw_get(kwargs, name) == SelectSeq(kwargs, LAMBDA p : p[1] = name)[1][2]

\* sum(val): of a list its elements, of a dict its keys; TypeError when one
\* of them is not a number
py_sum(st, val) ==
    LET elems == IF val[1] = "list" THEN val[2]
                 ELSE [i \in 1..Len(val[2]) |-> val[2][i][1]]
        F[i \in 0..Len(elems)] == IF i = 0 THEN 0 ELSE F[i - 1] + elems[i][2]
    IN IF \A i \in 1..Len(elems) : IsInt(elems[i])
       THEN Res(st, IntV(F[Len(elems)]), NoExc)
       ELSE Res(st, NoneV, "TypeError")

body(st0, session, b, args, kwargs) ==
    LET st == [st0 EXCEPT !.ran = Append(@, <<b, args>>)]
    IN CASE b \in {"func1", "func2"} -> fib(st, session, b, args, kwargs)
         [] b \in {"func3", "func3a", "func6"} ->
                Res([st EXCEPT !.counter = @ + 1], NoneV, "RuntimeError")
         [] b \in {"func5", "func5b"} -> Res(st, IntV(42), NoExc)
         [] b = "getter" -> Res(st, NoneV, "KeyError")
         [] b \in {"do_count", "do_count_c"} ->
                call(st, session, "getter", <<FuncV("do_count")>>, <<>>)
         [] b = "do_count2" -> call(st, session, "do_count", <<>>, <<>>)
         [] b = "func4" ->
                py_sum([st EXCEPT !.counter = @ + 1],
                       IF Len(args) > 0 THEN args[1] ELSE kw_get(kwargs, "val"))

\* mutant of _gc_func: the computing call copies whatever ref says
_gc_func_always_copies(st, session, b, args, kwargs) ==
    LET entry == get_cache(st, session, b, args, kwargs)
    IN IF IsRaise(entry)
       THEN Res(st, NoneV, entry[2])
       ELSE IF entry # NoEntry
       THEN IF entry[2] # NoExc
            THEN Res(st, NoneV, entry[2])
            ELSE Res(st, entry[1], NoExc)
       ELSE LET pc == pre_call(st, session, b, args, kwargs)
                r == IF pc.session # NoSession
                     THEN body(pc.st, pc.session, b, args, kwargs)
                     ELSE Res(pc.st, NoneV, NoExc)
            IN IF pc.st.raised # NoExc
               THEN Raised(pc.st)
               ELSE IF r.exc # NoExc
               THEN LET st2 == cache_exc(r.st, session, b, r.exc, args, kwargs)
                    IN IF st2.raised # NoExc THEN Raised(st2)
                       ELSE Res(st2, NoneV, r.exc)
               ELSE LET st2 == cache(r.st, session, b, r.ret, args, kwargs)
                    IN IF st2.raised # NoExc THEN Raised(st2)
                       ELSE deepcopy(st2, r.ret)

_gc_func(st, session, b, args, kwargs) ==
    LET entry == get_cache(st, session, b, args, kwargs)
    IN IF IsRaise(entry)
       THEN Res(st, NoneV, entry[2])
       ELSE IF entry # NoEntry
       THEN IF entry[2] # NoExc
            THEN Res(st, NoneV, entry[2])
            ELSE Res(st, entry[1], NoExc)
       ELSE LET pc == pre_call(st, session, b, args, kwargs)
                r == IF pc.session # NoSession
                     THEN body(pc.st, pc.session, b, args, kwargs)
                     ELSE Res(pc.st, NoneV, NoExc)
            IN IF pc.st.raised # NoExc
               THEN Raised(pc.st)
               ELSE IF r.exc # NoExc
               THEN LET st2 == cache_exc(r.st, session, b, r.exc, args, kwargs)
                    IN IF st2.raised # NoExc THEN Raised(st2)
                       ELSE Res(st2, NoneV, r.exc)
               ELSE LET st2 == cache(r.st, session, b, r.ret, args, kwargs)
                    IN IF st2.raised # NoExc THEN Raised(st2)
                       ELSE IF Ref(b) THEN Res(st2, r.ret, NoExc)
                       ELSE deepcopy(st2, r.ret)

\* mutant of _gc0_func: a raising body is stored with cache_exc, as _gc_func does
_gc0_func_caches_exc(st, session, b) ==
    LET ret == simple_get_cache(st, session, b)
    IN IF ret # MISSING
       THEN Res(st, ret, NoExc)
       ELSE LET pc == simple_pre_call(st, session, b)
                r == IF pc.session # NoSession
                     THEN body(pc.st, pc.session, b, <<>>, <<>>)
                     ELSE Res(pc.st, NoneV, NoExc)
            IN IF r.exc # NoExc
               THEN LET st2 == cache_exc(r.st, session, b, r.exc,
                                         <<EmptyTupleV, EmptyDictV>>, <<>>)
                    IN IF st2.raised # NoExc THEN Raised(st2)
                       ELSE Res(st2, NoneV, r.exc)
               ELSE LET st2 == cache(r.st, session, b, r.ret,
                                     <<EmptyTupleV, EmptyDictV>>, <<>>)
                    IN IF st2.raised # NoExc THEN Raised(st2)
                       ELSE IF Ref(b) THEN Res(st2, r.ret, NoExc)
                       ELSE deepcopy(st2, r.ret)

_gc0_func(st, session, b) ==
    LET ret == simple_get_cache(st, session, b)
    IN IF ret # MISSING
       THEN Res(st, ret, NoExc)
       ELSE LET pc == simple_pre_call(st, session, b)
                r == IF pc.session # NoSession
                     THEN body(pc.st, pc.session, b, <<>>, <<>>)
                     ELSE Res(pc.st, NoneV, NoExc)
            IN IF r.exc # NoExc
               THEN r
               ELSE LET st2 == cache(r.st, session, b, r.ret,
                                     <<EmptyTupleV, EmptyDictV>>, <<>>)
                    IN IF st2.raised # NoExc THEN Raised(st2)
                       ELSE IF Ref(b) THEN Res(st2, r.ret, NoExc)
                       ELSE deepcopy(st2, r.ret)

call(st, session, b, args, kwargs) ==
    IF _no_arg(b) THEN _gc0_func(st, session, b)
    ELSE _gc_func(st, session, b, args, kwargs)

-----------------------------------------------------------------------------
\* Reference counting: a list object no store and no caller variable refers
\* to is freed.

StoredValues(st) ==
    UNION {UNION {{st.cache[s][b][k][1] : k \in DOMAIN st.cache[s][b]} :
                     b \in DOMAIN st.cache[s]} : s \in Sessions}
    \cup UNION {{st.simple[s][b] : b \in DOMAIN st.simple[s]} : s \in Sessions}

collect(st, keep) ==
    [i \in ObjIds |-> IF ObjV(i) \in StoredValues(st) \cup keep THEN st.heap[i] ELSE Free]

-----------------------------------------------------------------------------
\* The caller's view of an operation: which operation on which session
\* object, the value passed in, and the value returned or exception raised.

Obs(op, session, b, args, val, ret, exc, ran) ==
    [op |-> op, session |-> session, func |-> b, args |-> args, kwargs |-> <<>>,
     val |-> val, ret |-> ret, exc |-> exc, ran |-> ran]

Init ==
    /\ _cache = [s \in Sessions |-> <<>>]
    /\ _simple_cache = [s \in Sessions |-> <<>>]
    /\ _disabled = [s \in Sessions |-> FALSE]
    /\ heap = [i \in ObjIds |-> Free]
    /\ counter = 0
    /\ scopes = <<>>
    /\ last = Obs("init", NoSession, "None", <<>>, NoneV, NoneV, NoExc, <<>>)

\* The operation's result r becomes the new state.
Commit(op, session, b, args, val, r) ==
    /\ ~r.st.oom
    /\ r.st.counter <= MaxCount
    /\ _cache' = r.st.cache
    /\ _simple_cache' = r.st.simple
    /\ _disabled' = r.st.disabled
    /\ counter' = r.st.counter
    /\ heap' = collect(r.st, {r.ret, val})
    /\ last' = Obs(op, session, b, args, val, r.ret, r.exc, r.st.ran)
    /\ UNCHANGED scopes

\* The same for an operation that was passed keyword arguments.
CommitKw(op, session, b, args, kwargs, val, r) ==
    /\ ~r.st.oom
    /\ r.st.counter <= MaxCount
    /\ _cache' = r.st.cache
    /\ _simple_cache' = r.st.simple
    /\ _disabled' = r.st.disabled
    /\ counter' = r.st.counter
    /\ heap' = collect(r.st, {r.ret, val})
    /\ last' = [Obs(op, session, b, args, val, r.ret, r.exc, r.st.ran)
                  EXCEPT !.kwargs = kwargs]
    /\ UNCHANGED scopes

\* b(session, *args) on a Session
Call(s, b, args) ==
    Commit("call", Plain(s), b, args, NoneV, call(State, Plain(s), b, args, <<>>))

\* b(session.inv, *args)
CallInv(s, b, args) ==
    Commit("call", Inv(s), b, args, NoneV, call(State, Inv(s), b, args, <<>>))

\* b(session.callonly, *args)
CallCallOnly(s, b, args) ==
    Commit("call", CallOnly(s), b, args, NoneV, call(State, CallOnly(s), b, args, <<>>))

\* b(session.setcache(ret, exc), *args)
CallSetCache(s, b, args, ret, exc) ==
    Commit("call", SetCache(s, ret, exc), b, args, ret,
           call(State, SetCache(s, ret, exc), b, args, <<>>))

\* session.putval(val, *args)
Putval(s, val, args) ==
    Commit("putval", Plain(s), "getter", args, val,
           Raised(cache(State, Plain(s), "getter", val, args, <<>>)))

\* session.cache(b, val, *args)
Cache(s, b, val, args) ==
    Commit("cache", Plain(s), b, args, val,
           Raised(cache(State, Plain(s), b, val, args, <<>>)))

\* session.cache_exc(b, exc, *args)
CacheExc(s, b, exc, args) ==
    Commit("cache_exc", Plain(s), b, args, NoneV,
           Raised(cache_exc(State, Plain(s), b, exc, args, <<>>)))

\* session.invalidate(b, *args)
Invalidate(s, b, args) ==
    Commit("invalidate", Plain(s), b, args, NoneV,
           Raised(invalidate(State, s, b, args, <<>>)))

\* b(session, *args, **kwargs) on a Session
CallKw(s, b, args, kwargs) ==
    CommitKw("call", Plain(s), b, args, kwargs, NoneV,
             call(State, Plain(s), b, args, kwargs))

\* session.putval(val, *args, **kwargs)
PutvalKw(s, val, args, kwargs) ==
    CommitKw("putval", Plain(s), "getter", args, kwargs, val,
             Raised(cache(State, Plain(s), "getter", val, args, kwargs)))

\* session.invalidate(b, *args, **kwargs)
InvalidateKw(s, b, args, kwargs) ==
    CommitKw("invalidate", Plain(s), b, args, kwargs, NoneV,
             Raised(invalidate(State, s, b, args, kwargs)))

\* the machine state under an interpreter that strips asserts (o) or not
Under(o) == [State EXCEPT !.optimize = o]

\* b(session, *args) on a Session, under either interpreter mode
CallUnder(s, b, args, o) ==
    Commit("call", Plain(s), b, args, NoneV, call(Under(o), Plain(s), b, args, <<>>))

\* session.cache(b, val, *args), under either interpreter mode
CacheUnder(s, b, val, args, o) ==
    Commit("cache", Plain(s), b, args, val,
           Raised(cache(Under(o), Plain(s), b, val, args, <<>>)))

\* session.cache_exc(b, exc, *args), under either interpreter mode
CacheExcUnder(s, b, exc, args, o) ==
    Commit("cache_exc", Plain(s), b, args, NoneV,
           Raised(cache_exc(Under(o), Plain(s), b, exc, args, <<>>)))

\* session.get_cache(b, *args): None, or the entry found
GetCache(s, b, args) ==
    LET entry == get_cache(State, Plain(s), b, args, <<>>)
        ret == IF entry = NoEntry THEN NoneV ELSE <<"entry", entry[1], entry[2]>>
    IN Commit("get_cache", Plain(s), b, args, NoneV,
              IF IsRaise(entry) THEN Res(State, NoneV, entry[2])
              ELSE Res(State, ret, NoExc))

\* session.simple_get_cache(b): MISSING, or the value in the slot
SimpleGetCache(s, b) ==
    Commit("get_cache", Plain(s), b, <<>>, NoneV,
           Res(State, simple_get_cache(State, Plain(s), b), NoExc))

\* session.invalidate_all(b), or session.invalidate_all() when b is "None"
InvalidateAll(s, b) ==
    Commit("invalidate_all", Plain(s), b, <<>>, NoneV,
           Res(invalidate_all(State, s, b), NoneV, NoExc))

\* session.invalidate_by_pkey(pkey)
InvalidateByPkey(s, pkey) ==
    Commit("invalidate_by_pkey", Plain(s), "None", <<>>, StrV(pkey),
           Res(invalidate_by_pkey(State, s, pkey), NoneV, NoExc))

\* with session.nocache(): the generator runs up to its yield
NocacheEnter(s) ==
    /\ Len(scopes) < MaxDepth
    /\ scopes' = Append(scopes, [s |-> s, old_val |-> _disabled[s]])
    /\ _disabled' = [_disabled EXCEPT ![s] = TRUE]
    /\ last' = Obs("nocache_enter", Plain(s), "None", <<>>, NoneV, NoneV, NoExc, <<>>)
    /\ heap' = collect(State, {})
    /\ UNCHANGED <<_cache, _simple_cache, counter>>

\* the block ends normally: the generator resumes after its yield
NocacheExit ==
    /\ scopes # <<>>
    /\ LET top == scopes[Len(scopes)]
       IN /\ _disabled' = [_disabled EXCEPT ![top.s] = top.old_val]
          /\ last' = Obs("nocache_exit", Plain(top.s), "None", <<>>, NoneV, NoneV, NoExc, <<>>)
    /\ scopes' = SubSeq(scopes, 1, Len(scopes) - 1)
    /\ heap' = collect(State, {})
    /\ UNCHANGED <<_cache, _simple_cache, counter>>

\* the exception the last call raised leaves the block: it is thrown into the
\* generator at its yield, which has no handler, so the generator ends there
NocacheRaise ==
    /\ scopes # <<>>
    /\ last.exc # NoExc
    /\ LET top == scopes[Len(scopes)]
       IN last' = Obs("nocache_raise", Plain(top.s), "None", <<>>, NoneV, NoneV, last.exc, <<>>)
    /\ scopes' = SubSeq(scopes, 1, Len(scopes) - 1)
    /\ heap' = collect(State, {})
    /\ UNCHANGED <<_cache, _simple_cache, _disabled, counter>>

\* the caller creates a list [0]
NewObj ==
    LET free == {i \in ObjIds : heap[i] = Free}
    IN /\ free # {}
       /\ LET i == CHOOSE x \in free : \A y \in free : x <= y
          IN /\ heap' = [collect(State, {}) EXCEPT ![i] = <<0>>]
             /\ last' = Obs("new", NoSession, "None", <<>>, NoneV, ObjV(i), NoExc, <<>>)
       /\ UNCHANGED <<_cache, _simple_cache, _disabled, counter, scopes>>

\* the caller mutates the list it was handed last: ret[0] += 1
Mutate ==
    /\ IsObj(last.ret)
    /\ heap[last.ret[2]][1] < MaxVal
    /\ heap' = [heap EXCEPT ![last.ret[2]] = <<@[1] + 1>>]
    /\ last' = [last EXCEPT !.op = "mutate", !.ran = <<>>]
    /\ UNCHANGED <<_cache, _simple_cache, _disabled, counter, scopes>>

-----------------------------------------------------------------------------
\* Memoization on plain sessions that share one store (P, and R0 which
\* forwards everything to P): calls only, caching enabled, no invalidation.

FibArgs == {<<IntV(n)>> : n \in 0..MaxN}

NextMemo ==
    \/ \E s \in {"P", "R0"}, a \in FibArgs : Call(s, "func2", a)
    \/ \E s \in {"P", "R0"}, b \in {"func3", "func3a"} : Call(s, b, <<>>)

SpecMemo == Init /\ [][NextMemo]_vars

-----------------------------------------------------------------------------
\* The session tree: the root P, its unrestricted child C and its restricted
\* children R0 and R1, used as a key-value store (putval/getval) and with the
\* zero-argument binding func5, with invalidation and the setcache and inv
\* views.

ValKey == <<StrV("val")>>

TreeCalls == {<<"getter", ValKey>>, <<"func5", <<>>>>}

Next ==
    \/ \E s \in TreeSessions, v \in {IntV(10), IntV(11)} : Putval(s, v, ValKey)
    \/ \E s \in TreeSessions, c \in TreeCalls : Call(s, c[1], c[2])
    \/ \E s \in TreeSessions, c \in TreeCalls : CallSetCache(s, c[1], c[2], IntV(61), NoExc)
    \/ \E s \in TreeSessions, c \in TreeCalls : Invalidate(s, c[1], c[2])
    \/ \E s \in TreeSessions, c \in TreeCalls : CallInv(s, c[1], c[2])

Spec == Init /\ [][Next]_vars

-----------------------------------------------------------------------------
\* The nocache() scope on P and on R0, which forwards every write to P:
\* the Fibonacci binding func1 and the key-value store, whose getval raises
\* KeyError while nothing is put.

ScopeFibArgs == {<<IntV(MaxN)>>, <<IntV(2)>>}

NextScope ==
    \/ \E s \in {"P", "R0"}, a \in ScopeFibArgs : Call(s, "func1", a)
    \/ \E s \in {"P", "R0"} : Call(s, "getter", ValKey)
    \/ \E s \in {"P", "R0"} : Putval(s, IntV(10), ValKey)
    \/ \E s \in {"P", "R0"} : CacheExc(s, "getter", "RuntimeError", ValKey)
    \/ \E s \in {"P", "R0"} : NocacheEnter(s)
    \/ NocacheExit
    \/ NocacheRaise

SpecScope == Init /\ [][NextScope]_vars

-----------------------------------------------------------------------------
\* The callonly and setcache views of P.

ViewFibArgs == {<<IntV(n)>> : n \in 0..MaxViewN}

ViewCalls == {<<"func1", a>> : a \in ViewFibArgs} \cup {<<"func5", <<>>>>}

\* the calls made through a setcache view
ViewSetCalls == {<<"func1", <<IntV(MaxViewN)>>>>, <<"func5", <<>>>>}

NextView ==
    \/ \E c \in ViewCalls : Call("P", c[1], c[2])
    \/ \E c \in ViewCalls : CallCallOnly("P", c[1], c[2])
    \/ \E c \in ViewSetCalls, e \in {NoExc, "RuntimeError"} :
          CallSetCache("P", c[1], c[2], IntV(61), e)
    \/ NocacheEnter("P")
    \/ NocacheExit

SpecView == Init /\ [][NextView]_vars

-----------------------------------------------------------------------------
\* Bindings whose body raises, on P and its child C, with invalidation.

NextExc ==
    \/ \E s \in {"P", "C"}, b \in {"func3", "func3a"} : Call(s, b, <<>>)
    \/ \E s \in {"P", "C"}, b \in {"func3", "func3a"} : Invalidate(s, b, <<>>)
    \/ \E s \in {"P", "C"}, b \in {"func3", "func3a"} : CallInv(s, b, <<>>)

SpecExc == Init /\ [][NextExc]_vars

-----------------------------------------------------------------------------
\* List objects handed to and returned by bindings on P: the caller creates
\* a list, stores it with putval or injects it with setcache, calls the
\* bindings and mutates what it was handed.

CountKey == <<FuncV("do_count")>>

ObjCalls ==
    {<<"do_count_c", <<>>>>, <<"do_count", <<>>>>, <<"func5b", <<>>>>, <<"func5", <<>>>>}

NextObj ==
    \/ NewObj
    \/ Mutate
    \/ IsObj(last.ret) /\ Putval("P", last.ret, CountKey)
    \/ \E c \in ObjCalls : Call("P", c[1], c[2])
    \/ \E c \in ObjCalls : IsObj(last.ret) /\ CallSetCache("P", c[1], c[2], last.ret, NoExc)

SpecObj == Init /\ [][NextObj]_vars

-----------------------------------------------------------------------------
\* Invalidation of single entries on the root session P and its child C:
\* invalidate and the inv view, on the Fibonacci binding func1 and the
\* zero-argument binding func5.

InvalFibArgs == {<<IntV(n)>> : n \in 0..MaxViewN}

InvalCalls == {<<"func1", a>> : a \in InvalFibArgs} \cup {<<"func5", <<>>>>}

\* the calls made through the inv view
InvCalls == {<<"func1", <<IntV(MaxViewN)>>>>, <<"func5", <<>>>>}

NextInval ==
    \/ \E c \in InvalCalls : Call("P", c[1], c[2])
    \/ \E s \in {"P", "C"} : CallSetCache(s, "func5", <<>>, IntV(61), NoExc)
    \/ \E c \in InvalCalls : Invalidate("P", c[1], c[2])
    \/ \E c \in InvCalls : CallInv("P", c[1], c[2])
    \/ Call("C", "func5", <<>>)
    \/ Invalidate("C", "func5", <<>>)
    \/ CallInv("C", "func5", <<>>)

SpecInval == Init /\ [][NextInval]_vars

-----------------------------------------------------------------------------
\* Bulk invalidation on the root session P and its child C: invalidate_all
\* with and without a binding and invalidate_by_pkey, over non-persistent
\* bindings (func1, func5), persistent ones (getter through putval, do_count)
\* and ones tagged 'test_pkey' (do_count2, func5b).

PersistCalls ==
    {<<"func1", <<IntV(0)>>>>, <<"func1", <<IntV(1)>>>>,
     <<"func5", <<>>>>, <<"func5b", <<>>>>, <<"do_count2", <<>>>>}

PersistBindings == {c[1] : c \in PersistCalls} \cup {"do_count", "getter"}

PKeys == {"test_pkey", "other_pkey"}

NextPersist ==
    \/ \E c \in PersistCalls : Call("P", c[1], c[2])
    \/ Call("C", "func5b", <<>>)
    \/ Putval("P", IntV(10), CountKey)
    \/ CallSetCache("P", "func5b", <<>>, IntV(61), NoExc)
    \/ \E b \in PersistBindings \cup {"None"} : InvalidateAll("P", b)
    \/ \E b \in {"func5b", "None"} : InvalidateAll("C", b)
    \/ \E s \in {"P", "C"}, k \in PKeys : InvalidateByPkey(s, k)

SpecPersist == Init /\ [][NextPersist]_vars

-----------------------------------------------------------------------------
\* The key-value store on P and its child C: putval and getval under two
\* keys, bulk and single invalidation, and the nocache() scope.

KVKeys == {ValKey, CountKey}

KVSessions == {"P", "C"}

NextKV ==
    \/ \E k \in KVKeys : Putval("P", IntV(10), k)
    \/ \E k \in KVKeys : Putval("C", IntV(11), k)
    \/ \E s \in KVSessions, k \in KVKeys : Call(s, "getter", k)
    \/ \E s \in KVSessions : InvalidateAll(s, "None")
    \/ \E s \in KVSessions : Invalidate(s, "getter", ValKey)
    \/ \E s \in KVSessions : NocacheEnter(s)
    \/ NocacheExit

SpecKV == Init /\ [][NextKV]_vars

-----------------------------------------------------------------------------
\* The session Q, constructed with restrict=[func5] and no parent: lookups,
\* stores and calls of bindings inside (func5) and outside (func1, getter,
\* func5b) its restriction set, with asserts in force or stripped.

OrphanCalls ==
    {<<"func1", a>> : a \in ViewFibArgs} \cup {<<"getter", ValKey>>, <<"func5b", <<>>>>}

NextOrphan ==
    \/ \E c \in OrphanCalls, o \in BOOLEAN : CallUnder("Q", c[1], c[2], o)
    \/ \E c \in OrphanCalls, o \in BOOLEAN : CacheUnder("Q", c[1], IntV(10), c[2], o)
    \/ \E c \in OrphanCalls, o \in BOOLEAN :
          CacheExcUnder("Q", c[1], "RuntimeError", c[2], o)
    \/ \E c \in OrphanCalls : ~_no_arg(c[1]) /\ GetCache("Q", c[1], c[2])
    \/ \E b \in {"func5", "func5b"} : SimpleGetCache("Q", b)
    \/ Call("Q", "func5", <<>>)
    \/ \E v \in {IntV(61), IntV(62)} : CallSetCache("Q", "func5", <<>>, v, NoExc)
    \/ Invalidate("Q", "func5", <<>>)

SpecOrphan == Init /\ [][NextOrphan]_vars

-----------------------------------------------------------------------------
\* Zero-argument bindings on P and its child C: func6, whose body raises,
\* and func5, called, given an exception with cache_exc or setcache(exc=...),
\* given a value with setcache, and invalidated.

ZeroBindings == {"func6", "func5"}

ZeroSet == {<<IntV(61), NoExc>>, <<NoneV, "RuntimeError">>}

NextZero ==
    \/ \E s \in {"P", "C"}, b \in ZeroBindings : Call(s, b, <<>>)
    \/ \E s \in {"P", "C"}, b \in ZeroBindings : CacheExc(s, b, "RuntimeError", <<>>)
    \/ \E s \in {"P", "C"}, b \in ZeroBindings, v \in ZeroSet :
           CallSetCache(s, b, <<>>, v[1], v[2])
    \/ \E s \in {"P", "C"}, b \in ZeroBindings : Invalidate(s, b, <<>>)

SpecZero == Init /\ [][NextZero]_vars

-----------------------------------------------------------------------------
\* None, 0 and () as stored values, next to 10 and 62, on P and its child C:
\* put with putval for getval('val') and injected with setcache for func5.

FalsyVals == {NoneV, IntV(0), EmptyTupleV}

NextFalsy ==
    \/ \E s \in {"P", "C"}, v \in FalsyVals \cup {IntV(10)} : Putval(s, v, ValKey)
    \/ \E s \in {"P", "C"}, v \in FalsyVals \cup {IntV(62)} :
           CallSetCache(s, "func5", <<>>, v, NoExc)
    \/ \E s \in {"P", "C"} : Call(s, "getter", ValKey)
    \/ \E s \in {"P", "C"} : Call(s, "func5", <<>>)
    \/ \E s \in {"P", "C"} : Invalidate(s, "getter", ValKey)
    \/ \E s \in {"P", "C"} : Invalidate(s, "func5", <<>>)

SpecFalsy == Init /\ [][NextFalsy]_vars

-----------------------------------------------------------------------------
\* Argument keys on P.  func4 is handed the list [1, 2] positionally and as
\* val=, the dicts {1: 0, 2: 0} and {2: 0, 1: 0}, and a list holding a
\* lambda; putval and getval are handed n=1, k=2 in both orders, and the
\* list holding a lambda.  An input is <<args, kwargs>>.

L12 == ListV(<<IntV(1), IntV(2)>>)
D12 == DictV(<<<<IntV(1), IntV(0)>>, <<IntV(2), IntV(0)>>>>)
D21 == DictV(<<<<IntV(2), IntV(0)>>, <<IntV(1), IntV(0)>>>>)
LL == ListV(<<LambdaV>>)

Func4Inputs ==
    {<<<<L12>>, <<>>>>, <<<<>>, <<<<"val", L12>>>>>>,
     <<<<D12>>, <<>>>>, <<<<D21>>, <<>>>>, <<<<LL>>, <<>>>>}

GetterInputs ==
    {<<<<>>, <<<<"n", IntV(1)>>, <<"k", IntV(2)>>>>>>,
     <<<<>>, <<<<"k", IntV(2)>>, <<"n", IntV(1)>>>>>>,
     <<<<LL>>, <<>>>>}

KeyInputs(b) == IF b = "func4" THEN Func4Inputs ELSE GetterInputs

NextKey ==
    \/ \E x \in Func4Inputs : CallKw("P", "func4", x[1], x[2])
    \/ \E x \in GetterInputs : PutvalKw("P", IntV(10), x[1], x[2])
    \/ \E x \in GetterInputs : CallKw("P", "getter", x[1], x[2])
    \/ \E x \in GetterInputs : InvalidateKw("P", "getter", x[1], x[2])
    \/ \E b \in {"func4", "getter"} : InvalidateAll("P", b)

SpecKey == Init /\ [][NextKey]_vars

-----------------------------------------------------------------------------
\* Helpers of the properties

Range(seq) == {seq[i] : i \in DOMAIN seq}

NoDup(seq) == \A i, j \in DOMAIN seq : seq[i] = seq[j] => i = j

\* the argument keys binding b has an entry for in session s's own store
CachedKeys(s, b) == IF b \in DOMAIN _cache[s] THEN DOMAIN _cache[s][b] ELSE {}

\* the stored entries whose computation incremented the tests' counter
CountedEntries(s) ==
    Cardinality({k \in CachedKeys(s, "func2") : k[1][1][2] > 1})
    + Cardinality(CachedKeys(s, "func3")) + Cardinality(CachedKeys(s, "func3a"))

FibVal[n \in 0..(MaxN + 1)] == IF n <= 1 THEN 1 ELSE FibVal[n - 1] + FibVal[n - 2]

\* the number of non-base-case bodies an uncached func1(n) executes
NonBase[n \in 0..(MaxN + 1)] == IF n <= 1 THEN 0 ELSE 1 + NonBase[n - 1] + NonBase[n - 2]

\* the non-base-case Fibonacci bodies among the executed bodies ran
NonBaseRuns(ran) ==
    Len(SelectSeq(ran, LAMBDA x : x[1] \in {"func1", "func2"} /\ x[2][1][2] > 1))

\* what a store answers when it has nothing for binding b
Absent(b) == IF _no_arg(b) THEN MISSING ELSE NoEntry

\* the state after the step
StateNext ==
    [cache |-> _cache', simple |-> _simple_cache', disabled |-> _disabled',
     heap |-> heap', counter |-> counter', ran |-> <<>>, oom |-> FALSE,
     raised |-> NoExc, optimize |-> FALSE]

\* what session s's own store holds for b(*args) in state st
OwnIn(st, s, b, args) ==
    IF _no_arg(b) THEN dict_get(st.simple[s], b, MISSING)
    ELSE IF b \in DOMAIN st.cache[s] THEN dict_get(st.cache[s][b], _key(args, <<>>), NoEntry)
    ELSE NoEntry

Own(s, b, args) == OwnIn(State, s, b, args)

OwnNext(s, b, args) == OwnIn(StateNext, s, b, args)

\* what simple_get_cache / get_cache on session s answer for b(*args)
LookupIn(st, s, b, args) ==
    IF _no_arg(b) THEN simple_get_cache(st, Plain(s), b)
    ELSE get_cache(st, Plain(s), b, args, <<>>)

Lookup(s, b, args) == LookupIn(State, s, b, args)

LookupNext(s, b, args) == LookupIn(StateNext, s, b, args)

\* the session whose store a cache or cache_exc on s for b writes
Owner(s, b) == IF _parent_only(s, b) THEN Parent(s) ELSE s

\* the outcome of calling b(session, *args) on Session s now
NextOutcome(s, b, args) ==
    LET r == call(State, Plain(s), b, args, <<>>)
    IN <<r.ret, r.exc, r.st.ran>>

\* the outcome of calling b(session, *args) on Session s after the step
OutcomeNext(s, b, args) ==
    LET r == call(StateNext, Plain(s), b, args, <<>>)
    IN <<r.ret, r.exc, r.st.ran>>

\* how many times the body of b ran with args among the executed bodies ran
Runs(ran, b, args) == Len(SelectSeq(ran, LAMBDA x : x = <<b, args>>))

\* the place of b(*args) in a store: the argument key, or the binding's slot
KeyOf(b, args) == IF _no_arg(b) THEN <<"slot">> ELSE _key(args, <<>>)

\* the entries of session s's own stores in state st, as <<binding, key, entry>>
EntriesIn(st, s) ==
    UNION {{<<b, k, st.cache[s][b][k]>> : k \in DOMAIN st.cache[s][b]} :
              b \in DOMAIN st.cache[s]}
    \cup {<<b, <<"slot">>, <<st.simple[s][b], NoExc>>>> : b \in DOMAIN st.simple[s]}

EntriesOf(s) == EntriesIn(State, s)

EntriesNext(s) == EntriesIn(StateNext, s)

\* no store of a session other than s changes in the step
OthersKept(s) == \A t \in Sessions \ {s} : EntriesNext(t) = EntriesOf(t)

IsInvalidation(o) ==
    o.op = "invalidate" \/ (o.op = "call" /\ o.session.kind = "InvalidatorSession")

-----------------------------------------------------------------------------
\* C1: on plain sessions with caching enabled and no invalidation, a body of
\* a general-path binding runs only for an argument key that has no entry
\* yet, at most once per key within a call and over any sequence of calls
\* (the counter always equals the number of stored counted entries), and a
\* call that finds an entry returns that entry's outcome, runs no body and
\* changes nothing; func2(n) returns the n-th Fibonacci number.
C1_Step ==
    LET pre == get_cache(State, last'.session, last'.func, last'.args, <<>>)
    IN /\ NoDup(last'.ran)
       /\ \A x \in Range(last'.ran) : get_cache(State, Plain("P"), x[1], x[2], <<>>) = NoEntry
       /\ pre # NoEntry =>
            /\ last'.ran = <<>>
            /\ <<last'.ret, last'.exc>> = pre
            /\ UNCHANGED <<_cache, _simple_cache, counter>>
       /\ counter' = CountedEntries("P")'
       /\ last'.func = "func2" => last'.ret = IntV(FibVal[last'.args[1][2]])

\* C1: every step of a memoized call runs the body at most once per key,
\* only for a key with no entry, and a hit returns the stored outcome.
C1_MemoOnce == [][C1_Step]_vars

\* the second func2(session, 5): 8 again, the counter still 4, no body run
C1_Witness ==
    /\ last.op = "call" /\ last.func = "func2" /\ last.args = <<IntV(5)>>
    /\ last.ret = IntV(8) /\ last.ran = <<>> /\ counter = 4

-----------------------------------------------------------------------------
\* C2: a ref=false binding hands every caller, on the computing call and on
\* every cache hit, a list object distinct from the stored one.
C2_CopyOnReturn ==
    (last.op = "call" /\ last.session.kind = "Session" /\ ~Ref(last.func) /\ IsObj(last.ret))
        => last.ret \notin StoredValues(State)

-----------------------------------------------------------------------------
\* C3: when a nocache() block ends, normally or by an exception, the
\* session's disabled flag is again what it was when the block was entered.
C3_NocacheRestores ==
    [][Len(scopes') < Len(scopes) =>
          _disabled'[scopes[Len(scopes)].s] = scopes[Len(scopes)].old_val]_vars

-----------------------------------------------------------------------------
\* A call whose lookup finds an entry runs no body and returns that entry.
C4_Hits ==
    LET pre == Lookup(last'.session.s, last'.func, last'.args)
    IN (last'.op = "call" /\ pre # Absent(last'.func)) =>
          /\ last'.ran = <<>>
          /\ <<last'.ret, last'.exc>> = pre

\* C4: an operation on a session whose nocache scope is active changes no
\* store at all, and entries stored before the scope still hit.
C4_NoStoreAnywhere ==
    [][(last'.op \in {"call", "putval", "cache_exc"} /\ _disabled[last'.session.s]) =>
          /\ UNCHANGED <<_cache, _simple_cache>>
          /\ C4_Hits]_vars

\* What the code does: a disabled session's own store is never changed, and
\* a write is suppressed exactly when the session that owns the target store
\* (the parent, for a restricted-away binding) is disabled; lookups still
\* hit; an uncached func1(n) whose store is disabled runs NonBase[n]
\* non-base bodies.
C4_Step ==
    LET s == last'.session.s
        b == last'.func
        a == last'.args
    IN last'.op \in {"call", "putval", "cache_exc"} =>
          /\ \A t \in Sessions : _disabled[t] =>
                 _cache'[t] = _cache[t] /\ _simple_cache'[t] = _simple_cache[t]
          /\ C4_Hits
          /\ (last'.op = "putval" /\ ~_disabled[Owner(s, b)]) =>
                 OwnNext(Owner(s, b), b, a) = <<last'.val, NoExc>>
          /\ (last'.op = "call" /\ b = "func1" /\ _disabled[Owner(s, b)]
                 /\ "func1" \notin DOMAIN _cache[Owner(s, b)]) =>
                 /\ NonBaseRuns(last'.ran) = NonBase[a[1][2]]
                 /\ last'.ret = IntV(FibVal[a[1][2]])

C4_OwnStoreInScope == [][C4_Step]_vars

\* func1(session, 5) inside session.nocache(): 8, with 7 non-base bodies
C4_Witness ==
    /\ _disabled["P"] /\ last.op = "call" /\ last.session = Plain("P")
    /\ last.func = "func1" /\ last.args = <<IntV(5)>>
    /\ last.ret = IntV(8) /\ NonBaseRuns(last.ran) = 7

-----------------------------------------------------------------------------
\* C5 as stated: after an invalidate (or a call through inv) on a restricted
\* session for a binding outside its set, the parent holds no entry for it.
C5_InvalidateForwarded ==
    (IsInvalidation(last) /\ _parent_only(last.session.s, last.func)) =>
        Lookup(Parent(last.session.s), last.func, last.args) = Absent(last.func)

\* C5 as amended: invalidate acts on the session's own store only; for a
\* binding outside the restriction set nothing changes at all, and the
\* lookup through the child still answers with the parent's entry.
C5_Step ==
    LET s == last'.session.s
        b == last'.func
        a == last'.args
    IN IsInvalidation(last') =>
          /\ \A t \in Sessions \ {s} :
                 _cache'[t] = _cache[t] /\ _simple_cache'[t] = _simple_cache[t]
          /\ _parent_only(s, b) =>
                 /\ UNCHANGED <<_cache, _simple_cache>>
                 /\ LookupNext(s, b, a) = Lookup(Parent(s), b, a)

\* C5 (amended): invalidate and calls through inv change the session's own
\* store only; outside the restriction set the parent's entry stays visible.
C5_InvalidateOwnOnly == [][C5_Step]_vars

\* R0.invalidate(getter, 'val') while P holds a value for 'val'
C5_Witness ==
    /\ IsInvalidation(last) /\ last.session.s = "R0" /\ last.func = "getter"
    /\ Lookup("P", "getter", ValKey) # NoEntry
    /\ Lookup("R0", "getter", ValKey) = Lookup("P", "getter", ValKey)

-----------------------------------------------------------------------------
\* C6: a restricted session's own stores hold nothing for a binding outside
\* its set; its lookups for such a binding are the parent's lookups, and what
\* was written through it (putval, setcache, a raised exception) is what the
\* parent's lookup returns.
C6_RestrictedForwards ==
    LET s == last.session.s
        b == last.func
        a == last.args
    IN /\ \A r \in TreeSessions : Restrict(r) # NoRestrict =>
              /\ DOMAIN _cache[r] \subseteq Restrict(r)
              /\ DOMAIN _simple_cache[r] \subseteq Restrict(r)
       /\ \A r \in TreeSessions, c \in TreeCalls : _parent_only(r, c[1]) =>
              Lookup(r, c[1], c[2]) = Lookup(Parent(r), c[1], c[2])
       /\ (last.op = "putval" /\ _parent_only(s, b)) =>
              Lookup(Parent(s), b, a) = <<last.val, NoExc>>
       /\ (last.op = "call" /\ last.session.kind = "SetCacheSession" /\ _parent_only(s, b)) =>
              Lookup(Parent(s), b, a) = IF _no_arg(b) THEN last.val ELSE <<last.val, NoExc>>
       /\ (last.op = "call" /\ last.session.kind = "Session" /\ _parent_only(s, b)
              /\ last.exc # NoExc) =>
              Lookup(Parent(s), b, a) = <<NoneV, last.exc>>

\* child2.putval(11, 'val') on the child with restrict=[]: parent.getval('val') is 11
C6_Witness ==
    /\ last.op = "putval" /\ last.session.s = "R0" /\ last.val = IntV(11)
    /\ Own("P", "getter", ValKey) = <<IntV(11), NoExc>>
    /\ _cache["R0"] = <<>>

-----------------------------------------------------------------------------
\* C7: the unrestricted child C answers a lookup with its own entry when it
\* has one and with P's answer otherwise; an operation on C writes C's own
\* store and never changes P's store.
C7_Step ==
    /\ \A c \in TreeCalls :
          LookupNext("C", c[1], c[2]) =
             IF OwnNext("C", c[1], c[2]) # Absent(c[1])
             THEN OwnNext("C", c[1], c[2]) ELSE LookupNext("P", c[1], c[2])
    /\ last'.session.s = "C" =>
          /\ _cache'["P"] = _cache["P"]
          /\ _simple_cache'["P"] = _simple_cache["P"]
          /\ last'.op = "putval" =>
                OwnNext("C", last'.func, last'.args) = <<last'.val, NoExc>>

\* C7: an unrestricted child reads its own entry first, else the parent's,
\* and every write on it lands in its own store, never the parent's.
C7_ChildOwnStore == [][C7_Step]_vars

\* child.putval(11, 'val') after parent.putval(10, 'val')
C7_Witness ==
    /\ last.op = "putval" /\ last.session.s = "C"
    /\ Lookup("P", "getter", ValKey) = <<IntV(10), NoExc>>
    /\ Lookup("C", "getter", ValKey) = <<IntV(11), NoExc>>

-----------------------------------------------------------------------------
\* C8 as stated: a call through session.callonly leaves the underlying
\* session's stores exactly as they were.
C8_CallOnlyPersistsNothing ==
    [][last'.session.kind = "CallOnlySession" => UNCHANGED <<_cache, _simple_cache>>]_vars

\* C8 as amended: the outcome of the call made through callonly is not
\* stored; an entry changes only where the body's own nested call on the
\* underlying session ran a body, so a body that makes no memoized call
\* leaves the stores exactly as they were.
C8_Step ==
    LET b == last'.func
        a == last'.args
    IN last'.session.kind = "CallOnlySession" =>
          /\ OwnNext("P", b, a) = Own("P", b, a)
          /\ \A c \in ViewCalls : OwnNext("P", c[1], c[2]) # Own("P", c[1], c[2]) =>
                 \E i \in 2..Len(last'.ran) : last'.ran[i] = <<c[1], c[2]>>
          /\ Len(last'.ran) <= 1 => UNCHANGED <<_cache, _simple_cache>>

\* C8 (amended): a call through callonly leaves its own key's entry as it
\* was; only memoized calls nested in the body change the stores.
C8_CallOnlyTopLevel == [][C8_Step]_vars

\* func1(session.callonly, 2) on an empty session: func1(1), func1(0) stored
C8_Witness ==
    /\ last.session = CallOnly("P") /\ last.func = "func1" /\ last.args = <<IntV(2)>>
    /\ last.ret = IntV(2)
    /\ Own("P", "func1", <<IntV(2)>>) = NoEntry
    /\ Own("P", "func1", <<IntV(1)>>) = <<IntV(1), NoExc>>
    /\ Own("P", "func1", <<IntV(0)>>) = <<IntV(1), NoExc>>

-----------------------------------------------------------------------------
\* C9 as stated: a call through setcache runs no body, and the next call on
\* the session returns the fixed value, or raises the fixed exception, for
\* every binding.
C9_SetCacheFixes ==
    (last.op = "call" /\ last.session.kind = "SetCacheSession") =>
        /\ last.ran = <<>>
        /\ NextOutcome(last.session.s, last.func, last.args) =
              IF last.session.exc # NoExc
              THEN <<NoneV, last.session.exc, <<>>>>
              ELSE <<last.session.ret, NoExc, <<>>>>

\* C9 as amended: a call through setcache runs no body and returns None;
\* while caching is enabled on the session owning the store, the next call
\* of a general-path binding returns the fixed value or raises the fixed
\* exception, and the next call of a zero-argument binding returns the fixed
\* value, or None when an exception was configured.
C9_SetCacheAmended ==
    LET s == last.session.s
        b == last.func
    IN (last.op = "call" /\ last.session.kind = "SetCacheSession") =>
          /\ last.ran = <<>> /\ last.ret = NoneV /\ last.exc = NoExc
          /\ ~_disabled[Owner(s, b)] =>
                NextOutcome(s, b, last.args) =
                   IF last.session.exc = NoExc THEN <<last.session.ret, NoExc, <<>>>>
                   ELSE IF _no_arg(b) THEN <<NoneV, NoExc, <<>>>>
                   ELSE <<NoneV, last.session.exc, <<>>>>

\* func1(session.setcache(exc=RuntimeError), 2) over a computed func1(2)
C9_Witness ==
    /\ last.op = "call" /\ last.session = SetCache("P", IntV(61), "RuntimeError")
    /\ last.func = "func1" /\ last.args = <<IntV(2)>>
    /\ ~_disabled["P"]
    /\ NextOutcome("P", "func1", <<IntV(2)>>) = <<NoneV, "RuntimeError", <<>>>>
    /\ Own("P", "func1", <<IntV(1)>>) = <<IntV(1), NoExc>>

-----------------------------------------------------------------------------
\* C10: a call of a raising general-path binding (func3: ref=false, func3a:
\* ref=true) raises RuntimeError; when no entry is visible the body runs once
\* (the counter goes up by one) and the exception becomes the session's own
\* entry; while an entry is visible the call raises the stored exception,
\* runs no body and leaves the counter and the stores alone.
C10_Step ==
    LET s == last'.session.s
        b == last'.func
        pre == Lookup(s, b, <<>>)
    IN (last'.op = "call" /\ last'.session.kind = "Session") =>
          /\ last'.exc = "RuntimeError"
          /\ pre # NoEntry =>
                /\ pre = <<NoneV, last'.exc>>
                /\ last'.ran = <<>>
                /\ UNCHANGED <<counter, _cache, _simple_cache>>
          /\ pre = NoEntry =>
                /\ last'.ran = <<<<b, <<>>>>>>
                /\ counter' = counter + 1
                /\ OwnNext(s, b, <<>>) = <<NoneV, "RuntimeError">>

\* C10: a raised exception is stored by the computing call and re-raised on
\* every later call with the same key without running the body.
C10_ExceptionCached == [][C10_Step]_vars

\* the second func3(session): RuntimeError again, the counter still 1
C10_Witness ==
    /\ last.op = "call" /\ last.session = Plain("P") /\ last.func = "func3"
    /\ last.exc = "RuntimeError" /\ last.ran = <<>> /\ counter = 1

-----------------------------------------------------------------------------
\* C11: invalidate_all() without a binding removes every entry of every
\* non-persistent binding from the session's two stores and keeps every entry
\* of every persistent binding (getter's putval values, do_count, do_count2,
\* func5b) as it is; on the root session a non-persistent binding then runs
\* its body on the next call and a persistent one with an entry does not.
C11_Step ==
    LET s == last'.session.s
    IN (last'.op = "invalidate_all" /\ last'.func = "None") =>
          /\ EntriesNext(s) = {e \in EntriesOf(s) : e[1] \in PERSISTENT_FUNCS}
          /\ OthersKept(s)
          /\ s = "P" => \A c \in PersistCalls :
                 /\ c[1] \notin PERSISTENT_FUNCS =>
                        Runs(OutcomeNext(s, c[1], c[2])[3], c[1], c[2]) = 1
                 /\ (c[1] \in PERSISTENT_FUNCS /\ Own(s, c[1], c[2]) # Absent(c[1])) =>
                        /\ OutcomeNext(s, c[1], c[2]) = NextOutcome(s, c[1], c[2])
                        /\ OutcomeNext(s, c[1], c[2])[3] = <<>>

\* C11: bulk invalidation drops exactly the non-persistent bindings' entries.
C11_InvalidateAllKeepsPersistent == [][C11_Step]_vars

\* session.invalidate_all() after func5b(session.setcache(61)) and
\* putval(10, do_count): both are still there, func5b(session) is 61
C11_Witness ==
    /\ last.op = "invalidate_all" /\ last.func = "None" /\ last.session.s = "P"
    /\ Own("P", "func5b", <<>>) = IntV(61)
    /\ Own("P", "getter", CountKey) = <<IntV(10), NoExc>>
    /\ Own("P", "do_count2", <<>>) = <<IntV(10), NoExc>>
    /\ NextOutcome("P", "func5b", <<>>) = <<IntV(61), NoExc, <<>>>>
    /\ NextOutcome("P", "func5", <<>>) = <<IntV(42), NoExc, <<<<"func5", <<>>>>>>>>

-----------------------------------------------------------------------------
\* C12: invalidate_by_pkey(tag) removes every entry of the bindings
\* registered under the tag (do_count2 and func5b under 'test_pkey', although
\* persistent) from the session's two stores and keeps every entry of every
\* other binding, untagged persistent ones included; an unknown tag removes
\* nothing; on the root session a removed binding runs its body again.
C12_Step ==
    LET s == last'.session.s
        tagged == IF last'.val = StrV("test_pkey") THEN {"do_count2", "func5b"} ELSE {}
    IN last'.op = "invalidate_by_pkey" =>
          /\ EntriesNext(s) = {e \in EntriesOf(s) : e[1] \notin tagged}
          /\ OthersKept(s)
          /\ s = "P" => \A b \in tagged : Runs(OutcomeNext(s, b, <<>>)[3], b, <<>>) = 1

\* C12: invalidation by persistence key drops exactly the tag's bindings.
C12_InvalidateByPkey == [][C12_Step]_vars

\* session.invalidate_by_pkey('test_pkey') after func5b(session.setcache(61)):
\* func5b(session) is 42 again, the putval value is kept
C12_Witness ==
    /\ last.op = "invalidate_by_pkey" /\ last.val = StrV("test_pkey")
    /\ Own("P", "func5b", <<>>) = MISSING
    /\ Own("P", "do_count2", <<>>) = NoEntry
    /\ Own("P", "do_count", <<>>) = <<IntV(10), NoExc>>
    /\ Own("P", "getter", CountKey) = <<IntV(10), NoExc>>
    /\ Own("P", "func5", <<>>) = IntV(42)
    /\ NextOutcome("P", "func5b", <<>>) = <<IntV(42), NoExc, <<<<"func5b", <<>>>>>>>>

-----------------------------------------------------------------------------
\* C13: session.invalidate(b, *args) removes exactly the entry of (b, args)
\* from the session's own stores and nothing else; when there was no such
\* entry nothing changes; on the root session the next call of b with args
\* then runs that body exactly once, and a call of any other (binding, args)
\* that had an entry still returns it without running a body.
C13_Step ==
    LET s == last'.session.s
        b == last'.func
        a == last'.args
    IN last'.op = "invalidate" =>
          /\ EntriesNext(s) = {e \in EntriesOf(s) : ~(e[1] = b /\ e[2] = KeyOf(b, a))}
          /\ OthersKept(s)
          /\ Own(s, b, a) = Absent(b) => EntriesNext(s) = EntriesOf(s)
          /\ s = "P" =>
                /\ Runs(OutcomeNext(s, b, a)[3], b, a) = 1
                /\ \A c \in InvalCalls \ {<<b, a>>} : Own(s, c[1], c[2]) # Absent(c[1]) =>
                       /\ OutcomeNext(s, c[1], c[2]) = NextOutcome(s, c[1], c[2])
                       /\ OutcomeNext(s, c[1], c[2])[3] = <<>>

\* C13: invalidate removes exactly one (binding, argument key) entry.
C13_InvalidateOne == [][C13_Step]_vars

\* session.invalidate(func1, 2) with func1(1) and func1(0) cached: the next
\* func1(session, 2) runs one body
C13_Witness ==
    /\ last.op = "invalidate" /\ last.func = "func1" /\ last.args = <<IntV(2)>>
    /\ Own("P", "func1", <<IntV(2)>>) = NoEntry
    /\ Own("P", "func1", <<IntV(1)>>) = <<IntV(1), NoExc>>
    /\ Own("P", "func1", <<IntV(0)>>) = <<IntV(1), NoExc>>
    /\ NextOutcome("P", "func1", <<IntV(2)>>) = <<IntV(2), NoExc, <<<<"func1", <<IntV(2)>>>>>>>>

-----------------------------------------------------------------------------
\* C14: invalidate_all(b) removes every entry of b, persistent or not, from
\* both stores of the session and keeps the entries of every other binding;
\* on the root session every call of b then runs its body.
C14_Step ==
    LET s == last'.session.s
        b == last'.func
    IN (last'.op = "invalidate_all" /\ b # "None") =>
          /\ EntriesNext(s) = {e \in EntriesOf(s) : e[1] # b}
          /\ b \notin DOMAIN _cache'[s] /\ b \notin DOMAIN _simple_cache'[s]
          /\ OthersKept(s)
          /\ s = "P" => \A c \in PersistCalls \cup {<<"getter", CountKey>>, <<"do_count", <<>>>>} :
                 c[1] = b => Runs(OutcomeNext(s, c[1], c[2])[3], c[1], c[2]) = 1

\* C14: invalidate_all(binding) drops the binding whatever its persistence.
C14_InvalidateAllOf == [][C14_Step]_vars

\* session.invalidate_all(func5b) after func5b(session.setcache(61)), and the
\* putval value kept
C14_Witness ==
    /\ last.op = "invalidate_all" /\ last.func = "func5b" /\ last.session.s = "P"
    /\ Own("P", "func5b", <<>>) = MISSING
    /\ Own("P", "getter", CountKey) = <<IntV(10), NoExc>>
    /\ Own("P", "func5", <<>>) = IntV(42)
    /\ NextOutcome("P", "func5b", <<>>) = <<IntV(42), NoExc, <<<<"func5b", <<>>>>>>>>

-----------------------------------------------------------------------------
\* C15: getval(keys) raises KeyError when neither the session's own store nor
\* its parent's holds a value under those keys; after putval(v, keys) with
\* caching enabled getval(keys) on that session returns v, and what getval
\* under the other key gives is not changed by the putval; a value getval
\* returns is still returned after invalidate_all().

\* session s's own store holds a value (not an exception) for getval(keys)
HoldsValue(s, keys) ==
    Own(s, "getter", keys) # NoEntry /\ Own(s, "getter", keys)[2] = NoExc

C15_Step ==
    LET s == last'.session.s
        a == last'.args
    IN /\ (last'.op = "call" /\ ~HoldsValue(s, a)
              /\ (Parent(s) # "None" => ~HoldsValue(Parent(s), a))) =>
             /\ last'.exc = "KeyError"
             /\ last'.ret = NoneV
       /\ (last'.op = "putval" /\ ~_disabled[s]) =>
             /\ OutcomeNext(s, "getter", a) = <<last'.val, NoExc, <<>>>>
             /\ \A k \in KVKeys \ {a} :
                    OutcomeNext(s, "getter", k) = NextOutcome(s, "getter", k)
       /\ (last'.op = "invalidate_all" /\ last'.func = "None") =>
             \A t \in KVSessions, k \in KVKeys :
                 NextOutcome(t, "getter", k)[2] = NoExc =>
                     OutcomeNext(t, "getter", k) = NextOutcome(t, "getter", k)

\* C15: getval fails when nothing is put, returns what putval put, and the
\* put value survives invalidate_all().
C15_GetvalPutval == [][C15_Step]_vars

\* child.invalidate_all() after parent.putval(10, 'val') and
\* child.putval(11, 'val'): child.getval('val') is 11, parent.getval('val') 10
C15_Witness ==
    /\ last.op = "invalidate_all" /\ last.func = "None" /\ last.session.s = "C"
    /\ NextOutcome("C", "getter", ValKey) = <<IntV(11), NoExc, <<>>>>
    /\ NextOutcome("P", "getter", ValKey) = <<IntV(10), NoExc, <<>>>>
    /\ NextOutcome("P", "getter", CountKey)[2] = "KeyError"

-----------------------------------------------------------------------------
\* C19: getval(keys) on a session fails only while neither the session nor
\* its parent holds a value put under those keys, whatever getval calls
\* failed before: a getval that raises KeyError finds no value in either.
C19_FailedGetvalForgotten ==
    LET s == last.session.s
        a == last.args
    IN (last.op = "call" /\ last.func = "getter" /\ last.exc = "KeyError") =>
          /\ ~HoldsValue(s, a)
          /\ Parent(s) # "None" => ~HoldsValue(Parent(s), a)

-----------------------------------------------------------------------------
\* C16: a call of b through session.inv runs no body and returns None; it
\* removes exactly the entry of (b, args), or b's slot, from the session's own
\* stores and stores nothing; on the root session the next call of b with
\* args then runs that body exactly once.
C16_Step ==
    LET s == last'.session.s
        b == last'.func
        a == last'.args
    IN (last'.op = "call" /\ last'.session.kind = "InvalidatorSession") =>
          /\ last'.ran = <<>> /\ last'.ret = NoneV /\ last'.exc = NoExc
          /\ EntriesNext(s) = {e \in EntriesOf(s) : ~(e[1] = b /\ e[2] = KeyOf(b, a))}
          /\ OwnNext(s, b, a) = Absent(b)
          /\ OthersKept(s)
          /\ s = "P" => Runs(OutcomeNext(s, b, a)[3], b, a) = 1

\* C16: the inv view invalidates the call's entry and calls nothing.
C16_InvView == [][C16_Step]_vars

\* func1(session.inv, 2) with func1(2), func1(1), func1(0) cached: only
\* func1(2) is gone, the next func1(session, 2) runs one body
C16_Witness ==
    /\ last.op = "call" /\ last.session = Inv("P")
    /\ last.func = "func1" /\ last.args = <<IntV(2)>> /\ last.ret = NoneV
    /\ Own("P", "func1", <<IntV(2)>>) = NoEntry
    /\ Own("P", "func1", <<IntV(1)>>) = <<IntV(1), NoExc>>
    /\ Own("P", "func1", <<IntV(0)>>) = <<IntV(1), NoExc>>
    /\ NextOutcome("P", "func1", <<IntV(2)>>) = <<IntV(2), NoExc, <<<<"func1", <<IntV(2)>>>>>>>>

-----------------------------------------------------------------------------
\* C17: a call of b through session.callonly runs the body of that call
\* exactly once, first, whether or not the session holds an outcome for it;
\* an outcome the session held for (b, args) is still held afterwards and
\* the next call on the session returns it without running a body.
C17_Step ==
    LET s == last'.session.s
        b == last'.func
        a == last'.args
    IN (last'.op = "call" /\ last'.session.kind = "CallOnlySession") =>
          /\ last'.ran # <<>> /\ last'.ran[1] = <<b, a>>
          /\ Runs(last'.ran, b, a) = 1
          /\ Own(s, b, a) # Absent(b) =>
                /\ OwnNext(s, b, a) = Own(s, b, a)
                /\ OutcomeNext(s, b, a) = NextOutcome(s, b, a)
                /\ OutcomeNext(s, b, a)[3] = <<>>

\* C17: the callonly view always runs the top-level body once and keeps the
\* cached outcome of that key.
C17_CallOnlyRuns == [][C17_Step]_vars

\* func5(session.callonly) after func5(session.setcache(61)): the call runs
\* the body and returns 42, func5(session) is still 61
C17_Witness ==
    /\ last.op = "call" /\ last.session = CallOnly("P") /\ last.func = "func5"
    /\ last.ret = IntV(42) /\ last.ran = <<<<"func5", <<>>>>>>
    /\ NextOutcome("P", "func5", <<>>) = <<IntV(61), NoExc, <<>>>>

-----------------------------------------------------------------------------
\* C18: a ref=true binding hands back the stored object itself: the list
\* object a call returns, computing or hit, is the one held in the store, an
\* object injected through setcache is the one stored, and after the caller
\* mutated the object it was handed the next call returns that same object.
C18_RefIdentity ==
    LET s == last.session.s
        b == last.func
        a == last.args
    IN /\ (last.op \in {"call", "mutate"} /\ last.session.kind = "Session"
              /\ Ref(b) /\ IsObj(last.ret)) =>
             /\ Own(s, b, a) = IF _no_arg(b) THEN last.ret ELSE <<last.ret, NoExc>>
             /\ NextOutcome(s, b, a) = <<last.ret, NoExc, <<>>>>
       /\ (last.op = "call" /\ last.session.kind = "SetCacheSession" /\ Ref(b)) =>
             /\ Own(s, b, a) = IF _no_arg(b) THEN last.val ELSE <<last.val, NoExc>>
             /\ NextOutcome(s, b, a) = <<last.val, NoExc, <<>>>>

\* count = [0]; do_count(session.setcache(count)); do_count(session)[0] += 1:
\* the next do_count(session) is count, which now holds 1
C18_Witness ==
    /\ last.op = "mutate" /\ last.session = Plain("P") /\ last.func = "do_count"
    /\ IsObj(last.ret) /\ heap[last.ret[2]] = <<1>>
    /\ NextOutcome("P", "do_count", <<>>) = <<last.ret, NoExc, <<>>>>

-----------------------------------------------------------------------------
\* what "assert self._parent" followed by the use of the parent can raise
ContractViolation == {"AssertionError", "AttributeError"}

\* the step is operation op on Q for a binding outside Q's restriction set
OrphanStep(ops) ==
    /\ last'.op \in ops
    /\ last'.session = Plain("Q")
    /\ _parent_only("Q", last'.func)

\* C20: on the restricted session without a parent, get_cache, cache and
\* cache_exc for a binding outside the set each fail as a contract violation,
\* and no store changes.
C20_AllFail ==
    [][OrphanStep({"get_cache", "cache", "cache_exc"}) =>
          /\ last'.exc \in ContractViolation
          /\ UNCHANGED <<_cache, _simple_cache>>]_vars

\* What the code does: cache and cache_exc fail (AssertionError, or
\* AttributeError when asserts are stripped) and change no store; get_cache
\* and simple_get_cache do not fail, they report absent (None, MISSING) and
\* change no store; a call of such a binding therefore finds nothing, runs
\* the body and then fails when it stores the outcome.
C20_Step ==
    /\ OrphanStep({"cache", "cache_exc"}) =>
          /\ last'.exc \in ContractViolation
          /\ UNCHANGED <<_cache, _simple_cache>>
    /\ OrphanStep({"get_cache"}) =>
          /\ last'.exc = NoExc
          /\ last'.ret = IF _no_arg(last'.func) THEN MISSING ELSE NoneV
          /\ UNCHANGED <<_cache, _simple_cache>>
    /\ OrphanStep({"call"}) =>
          /\ last'.exc \in ContractViolation
          /\ last'.ran # <<>> /\ last'.ran[1] = <<last'.func, last'.args>>
          /\ UNCHANGED <<_cache, _simple_cache>>

\* without a parent, stores of a restricted-away binding fail and lookups
\* report absent; no store changes
C20_OrphanRestricted == [][C20_Step]_vars

\* q.cache(func1, 10, 2) fails while q holds func5's slot, which is kept
C20_Witness ==
    /\ last.op = "cache" /\ last.session = Plain("Q") /\ last.func = "func1"
    /\ last.exc = "AssertionError"
    /\ _simple_cache["Q"] = ("func5" :> IntV(61))
    /\ _cache["Q"] = <<>>

-----------------------------------------------------------------------------
\* C21: a call of a zero-argument binding on a session that holds nothing
\* for it, whose body raises, raises the body's exception to the caller,
\* having executed the body once, and changes no store of any session, so
\* that the next call on the same session executes the body and raises
\* again; and whatever calls, cache_exc and setcache(exc=...) operations
\* came before, a call that finds the slot of a zero-argument binding filled
\* raises nothing.

C21_Step ==
    LET o == last'
        s == o.session.s
        b == o.func
    IN (o.op = "call" /\ o.session.kind = "Session" /\ _no_arg(b)
        /\ Runs(o.ran, b, <<>>) > 0 /\ o.exc # NoExc) =>
          /\ Lookup(s, b, <<>>) = MISSING
          /\ o.exc = "RuntimeError"
          /\ o.ran = <<<<b, <<>>>>>>
          /\ \A t \in Sessions : EntriesNext(t) = EntriesOf(t)
          /\ OutcomeNext(s, b, <<>>) = <<NoneV, "RuntimeError", <<<<b, <<>>>>>>>>

C21_SlotFilled ==
    \A s \in Sessions : \A b \in DOMAIN _simple_cache[s] :
        /\ Own(s, b, <<>>) # MISSING
        /\ NextOutcome(s, b, <<>>)[2] = NoExc

C21_ExcStoresNone ==
    LET o == last'
        s == o.session.s
        b == o.func
    IN /\ (o.op = "cache_exc" /\ _no_arg(b) /\ o.exc = NoExc) =>
             OwnNext(Owner(s, b), b, <<>>) = NoneV
       /\ (o.op = "call" /\ o.session.kind = "SetCacheSession" /\ _no_arg(b)
           /\ o.session.exc # NoExc /\ o.exc = NoExc) =>
             /\ OwnNext(Owner(s, b), b, <<>>) = NoneV
             /\ o.ran = <<>>

\* C21: zero-argument bindings never cache an exception
C21_ZeroArgNoExc ==
    [][C21_Step /\ C21_ExcStoresNone /\ C21_SlotFilled']_vars

C21_Witness ==
    /\ last.op = "call" /\ last.session.kind = "Session" /\ last.func = "func6"
    /\ last.exc = "RuntimeError" /\ counter >= 2
    /\ "func5" \in DOMAIN _simple_cache[last.session.s]
    /\ _simple_cache[last.session.s]["func5"] = NoneV

-----------------------------------------------------------------------------
\* C22: a call on a session whose own store holds None, 0 or () for the
\* call, on the general or the zero-argument path, executes no body and
\* returns that value, whatever the parent holds; and a call executes a body
\* exactly when the lookup through the session and its parent finds no
\* entry.

C22_Step ==
    LET o == last'
        s == o.session.s
        b == o.func
        own == Own(s, b, o.args)
        v == IF _no_arg(b) THEN own ELSE own[1]
    IN (o.op = "call" /\ o.session.kind = "Session") =>
          /\ (own # Absent(b) /\ (~_no_arg(b) => own[2] = NoExc) /\ Falsy(v)) =>
                /\ o.ran = <<>>
                /\ o.exc = NoExc
                /\ o.ret = v
          /\ (o.ran # <<>>) <=> (Lookup(s, b, o.args) = Absent(b))

\* C22: a stored None or false value is a hit
C22_FalsyIsHit == [][C22_Step]_vars

C22_Witness ==
    /\ last.op = "call" /\ last.session = Plain("C") /\ last.func = "getter"
    /\ last.ret = IntV(0)
    /\ Own("P", "getter", ValKey) = <<IntV(10), NoExc>>
    /\ Own("C", "func5", <<>>) = NoneV
    /\ Own("P", "func5", <<>>) = IntV(62)

-----------------------------------------------------------------------------
\* Equality of argument values as Python's == decides it: lists element by
\* element, dicts as maps whatever their insertion order.

DictKeyOrder == <<IntV(1), IntV(2)>>

\* a dict with its items in the order of their keys, any other value as it is
Canon(v) ==
    IF v[1] = "dict" /\ Len(v) = 2
    THEN LET F[i \in 0..Len(DictKeyOrder)] ==
                 IF i = 0 THEN <<>>
                 ELSE F[i - 1] \o SelectSeq(v[2], LAMBDA p : p[1] = DictKeyOrder[i])
         IN DictV(F[Len(DictKeyOrder)])
    ELSE v

PyEq(v, w) == Canon(v) = Canon(w)

KwNames(kwargs) == {kwargs[i][1] : i \in 1..Len(kwargs)}

\* the inputs x and y pass equal positional tuples and equal keyword maps
SameCall(x, y) ==
    /\ Len(x[1]) = Len(y[1])
    /\ \A i \in 1..Len(x[1]) : PyEq(x[1][i], y[1][i])
    /\ KwNames(x[2]) = KwNames(y[2])
    /\ \A n \in KwNames(x[2]) : PyEq(kw_get(x[2], n), kw_get(y[2], n))

\* the inputs x and y pass the same content, dicts in the same insertion
\* order, positionally and as keyword maps
SameContent(x, y) ==
    /\ x[1] = y[1]
    /\ KwNames(x[2]) = KwNames(y[2])
    /\ \A n \in KwNames(x[2]) : kw_get(x[2], n) = kw_get(y[2], n)

\* an argument of input x can be neither hashed nor pickled
Unpicklable(x) ==
    \/ \E i \in 1..Len(x[1]) : ~hashable(x[1][i]) /\ ~picklable(x[1][i])
    \/ \E i \in 1..Len(x[2]) : ~hashable(x[2][i][2]) /\ ~picklable(x[2][i][2])

\* what session s's own store holds for b called with input x in state st
OwnInKw(st, s, b, x) ==
    IF b \in DOMAIN st.cache[s] THEN dict_get(st.cache[s][b], _key(x[1], x[2]), NoEntry)
    ELSE NoEntry

\* the step stored an outcome for the input it was given: a putval, or a
\* call that executed the body
StoringStep(o) ==
    /\ o.op \in {"call", "putval"} /\ o.session.kind = "Session"
    /\ ~_no_arg(o.func)
    /\ o.op = "call" => o.ran # <<>>

\* C23: an operation that derives a key for its arguments never fails in
\* the derivation, unhashable arguments included; and after an operation
\* stored an outcome for input x, the entry of every input y is that
\* outcome exactly when y passes positional arguments equal to x's and
\* keyword arguments equal to x's as a name-to-value map (whatever the
\* order the keywords were passed in), and is what it was before otherwise:
\* in particular the same value passed positionally and by keyword has two
\* entries.
C23_Step ==
    LET o == last'
        s == o.session.s
        b == o.func
        x == <<o.args, o.kwargs>>
        stored == IF o.op = "putval" THEN <<o.val, NoExc>>
                  ELSE IF o.exc # NoExc THEN <<NoneV, o.exc>>
                  ELSE <<o.ret, NoExc>>
    IN /\ o.exc # "PicklingError"
       /\ StoringStep(o) =>
             \A y \in KeyInputs(b) :
                 OwnInKw(StateNext, s, b, y) =
                     IF SameCall(x, y) THEN stored ELSE OwnInKw(State, s, b, y)

\* C23: key derivation is total and identifies exactly the equal calls
C23_KeyTotalByEquality == [][C23_Step]_vars

\* What the code does instead: the derivation fails exactly on an argument
\* that can be neither hashed nor pickled, and then no entry changes; and
\* the entry of y becomes the stored outcome exactly when y passes the same
\* content as x, dicts in the same insertion order.
C23_ContentStep ==
    LET o == last'
        s == o.session.s
        b == o.func
        x == <<o.args, o.kwargs>>
        stored == IF o.op = "putval" THEN <<o.val, NoExc>>
                  ELSE IF o.exc # NoExc THEN <<NoneV, o.exc>>
                  ELSE <<o.ret, NoExc>>
    IN (o.op \in {"call", "putval", "invalidate"}) =>
          /\ o.exc = "PicklingError" =>
                /\ Unpicklable(x)
                /\ \A y \in KeyInputs(b) :
                       OwnInKw(StateNext, s, b, y) = OwnInKw(State, s, b, y)
          /\ (Unpicklable(x) /\ (o.op = "putval" \/ b \in DOMAIN _cache[s])) =>
                o.exc = "PicklingError"
          /\ (StoringStep(o) /\ o.exc # "PicklingError") =>
                \A y \in KeyInputs(b) :
                    OwnInKw(StateNext, s, b, y) =
                        IF SameContent(x, y) THEN stored ELSE OwnInKw(State, s, b, y)

C23_KeyByContent == [][C23_ContentStep]_vars

\* the list [1, 2] passed positionally and as val= executed the body twice,
\* and n=1, k=2 was found under k=2, n=1
C23_Witness ==
    /\ last.op = "call" /\ last.func = "getter" /\ last.ret = IntV(10)
    /\ last.kwargs = <<<<"k", IntV(2)>>, <<"n", IntV(1)>>>>
    /\ OwnInKw(State, "P", "func4", <<<<L12>>, <<>>>>) = <<IntV(3), NoExc>>
    /\ OwnInKw(State, "P", "func4", <<<<>>, <<<<"val", L12>>>>>>) = <<IntV(3), NoExc>>
    /\ counter = 2

====
